---- MODULE Spec2Model ----
(***************************************************************************)
(* Model of the Verilog judge pipeline of dmoj/executors/VLOG.py and of    *)
(* the stdout protocol checker of dmoj/checkers/verilogchecker.py.         *)
(*                                                                         *)
(* Spec        : Executor.populate_result and the stages it drives         *)
(*               (_process_waveform, _process_ppa with both providers).    *)
(* SpecChecker : check() applied to bounded stdout / stderr inputs.        *)
(* SpecWorkers : two judge workers running _process_waveform against the   *)
(*               shared /waves directory.                                  *)
(* SpecCacheKey: CLikeExecutor.get_binary_cache_key on two compile units.  *)
(* SpecCompile : create_files followed by calls of get_compile_args.       *)
(* SpecWriteFs : get_write_fs over the collaborator's default policy.      *)
(***************************************************************************)
EXTENDS Integers, Sequences, FiniteSets, TLC

VARIABLES
    pc,              \* position inside populate_result / _process_ppa
    dir_set,         \* truthiness of self._dir
    submission_id,   \* self.submission_id ("None" when absent)
    meta,            \* self.meta, the per-problem options
    syscalls,        \* Executor.syscalls, the extra syscalls of the sandbox policy
    result,          \* the Result object mutated in place
    feedback_parts,  \* local list of _process_ppa
    failed_targets,  \* local list of _process_ppa
    f4pga_result,    \* local of _process_ppa: what _execute_f4pga returned
    openlane_result, \* local of _process_ppa: what _execute_openlane returned
    posts,           \* history of requests.post calls, in order
    log,             \* the warnings and errors logged so far, in order
    entry_result,    \* the Result as super().populate_result left it
    waves,           \* files present in the durable directory /waves
    vcd,             \* locals of _process_waveform: what it found of wave.vcd
    handles,         \* the upload files opened by _execute_* and still open
    proc_out,        \* checker input: captured stdout, a sequence of characters
    res_feedback,    \* checker input: kw['result'].feedback ("stderr")
    point_value,     \* checker input: kw['point_value']
    checked,         \* the CheckerResult returned by check(), or the not-yet value
    workers,         \* per worker: its executor's fields and position in _process_waveform
    artifacts,       \* the shared directory /waves: path -> the worker that wrote it last
    units,           \* the two compile units whose cache keys are compared
    keys,            \* what get_binary_cache_key returned for each unit
    problem_id,      \* self.problem of the executor being compiled
    source_dict,     \* names of self.source_dict, in insertion order
    dir_files,       \* names of the files in the working directory self._dir
    source_paths,    \* self.source_paths
    compile_args,    \* the source part of what get_compile_args returned last
    calls,           \* how many times get_compile_args has run
    work_dir,        \* self._dir of the executor asked for its write policy
    default_fs,      \* the list object super().get_write_fs() hands out
    write_fs         \* what get_write_fs returned

pipeVars == <<pc, dir_set, submission_id, meta, syscalls, result, feedback_parts,
              failed_targets, f4pga_result, openlane_result, posts, log, entry_result, waves,
              vcd, handles>>
checkVars == <<proc_out, res_feedback, point_value, checked>>
workerVars == <<workers, artifacts>>
keyVars == <<units, keys>>
compileVars == <<problem_id, source_dict, dir_files, source_paths, compile_args, calls>>
fsVars == <<work_dir, default_fs, write_fs>>
sideVars == <<workerVars, keyVars, compileVars, fsVars>>
vars == <<pipeVars, checkVars, sideVars>>

----------------------------------------------------------------------------
(* Bounds of the model.                                                    *)

\* The threshold value a problem configures for a metric; measured values
\* range over Target-1 .. Target+1 so that below, equal and above all occur.
Target == 2
\* The declared point value of a test case.
MaxPoints == 2

----------------------------------------------------------------------------
(* Python values.  A metric or threshold is None, a number, or a string    *)
(* such as "N/A".                                                          *)

None == [k |-> "none", v |-> 0]
NA == [k |-> "str", v |-> 0]
Num(n) == [k |-> "num", v |-> n]
IsNum(x) == x.k = "num"

\* Truthiness of an optional identifier: None and '' are falsy.
Truthy(s) == s \notin {"None", ""}

\* x < y of Python: defined on two numbers, TypeError otherwise (the callers
\* swallow the TypeError, so the comparison then contributes nothing).
PyLess(x, y) == IsNum(x) /\ IsNum(y) /\ x.v < y.v
PyGreater(x, y) == IsNum(x) /\ IsNum(y) /\ x.v > y.v

----------------------------------------------------------------------------
(* Verdict states (Result flags) and feedback values.                      *)

Flags == {"AC", "WA", "TLE", "IE", "PLE"}

\* Short feedback: a kind and, for the PPA summary, the number of failed items.
Feedback(kind, n) == [kind |-> kind, n |-> n]

\* One newline-separated segment of extended feedback.
Seg(tag, kind, data, items, path) ==
    [tag |-> tag, kind |-> kind, data |-> data, items |-> items, path |-> path]

\* A log.warning / log.error line: who reports which condition.
LogEntry(provider, event) == [provider |-> provider, event |-> event]

\* One entry of failed_targets.
FailedItem(provider, metric, actual, target) ==
    [provider |-> provider, metric |-> metric, actual |-> actual, target |-> target]

\* A decoded JSON response body.  shape "metrics": a dict whose "PPA" payload
\* decodes to the provider's metrics m; "no_ppa": a dict without a usable
\* "PPA" payload; "empty": the empty dict {} (falsy).  NoResult is None.
Body(shape, success, m) == [shape |-> shape, success |-> success, m |-> m]
NoResult == Body("None", FALSE, <<>>)
ResultTruthy(r) == r.shape \in {"metrics", "no_ppa"}

----------------------------------------------------------------------------
(* Executor._check_f4pga_targets: returns the failed list and the new      *)
(* feedback_parts.                                                         *)

F4pgaFmaxFails(fmax_value, f4pga_target_fmax) ==
    /\ f4pga_target_fmax # None
    /\ fmax_value # None
    /\ PyLess(fmax_value, f4pga_target_fmax)

_check_f4pga_targets(f4pga_data, f4pga_target_fmax, parts) ==
    IF f4pga_data.shape # "metrics"
    THEN [failed |-> <<>>,
          parts |-> Append(parts, Seg("[F4PGA]", "Error processing results", <<>>, <<>>, <<>>))]
    ELSE LET fmax_value == f4pga_data.m[1]
         IN [failed |-> IF F4pgaFmaxFails(fmax_value, f4pga_target_fmax)
                        THEN <<FailedItem("F4PGA", "Fmax", fmax_value, f4pga_target_fmax)>>
                        ELSE <<>>,
             parts |-> Append(parts, Seg("[F4PGA]", "Fmax", <<fmax_value, f4pga_target_fmax>>, <<>>, <<>>))]

(* Executor._check_openlane_targets.  m = <<ppa_score, critical_path_ns,   *)
(* CoreArea_um2, power_total>>.                                            *)

OpenlaneScoreFails(actual, target) ==
    target # None /\ actual # NA /\ PyLess(actual, target)

\* Mutant: >= instead of >, a value equal to the threshold fails.
OpenlaneMaxFails_Ge(actual, target) ==
    target # None /\ actual # NA /\ IsNum(actual) /\ IsNum(target) /\ actual.v >= target.v

OpenlaneMaxFails(actual, target) ==
    target # None /\ actual # NA /\ PyGreater(actual, target)

_check_openlane_targets(openlane_data, t_score, t_path, t_area, t_power, parts) ==
    IF openlane_data.shape # "metrics"
    THEN [failed |-> <<>>,
          parts |-> Append(parts, Seg("[OpenLane]", "Error processing results", <<>>, <<>>, <<>>))]
    ELSE LET m == openlane_data.m
             f1 == IF OpenlaneScoreFails(m[1], t_score)
                   THEN <<FailedItem("OpenLane", "PPA score", m[1], t_score)>> ELSE <<>>
             f2 == IF OpenlaneMaxFails(m[2], t_path)
                   THEN <<FailedItem("OpenLane", "critical path", m[2], t_path)>> ELSE <<>>
             f3 == IF OpenlaneMaxFails(m[3], t_area)
                   THEN <<FailedItem("OpenLane", "core area", m[3], t_area)>> ELSE <<>>
             f4 == IF OpenlaneMaxFails(m[4], t_power)
                   THEN <<FailedItem("OpenLane", "power", m[4], t_power)>> ELSE <<>>
         IN [failed |-> f1 \o f2 \o f3 \o f4,
             parts |-> Append(parts, Seg("[OpenLane]", "metrics",
                                         <<m[1], t_score, m[2], t_path, m[3], t_area, m[4], t_power>>,
                                         <<>>, <<>>))]

----------------------------------------------------------------------------
(* Inputs of the pipeline.                                                 *)

\* Executor.syscalls: the class attribute, the same list for every instance.
ClassSyscalls ==
    {"socket", "connect", "sendto", "recvfrom", "send", "recv",
     "setsockopt", "getsockopt", "shutdown"}

Thresholds == {None, Num(Target)}
MetricVals == {Num(Target - 1), Num(Target), Num(Target + 1), NA}

\* The OpenLane thresholds a problem configures, as <<ppa_score,
\* critical_path_ns, core_area_um2, power_total>>: none, all, and two mixed
\* settings in which every metric occurs both with and without a threshold.
OpenlaneTargets ==
    {<<None, None, None, None>>,
     <<Num(Target), Num(Target), Num(Target), Num(Target)>>,
     <<Num(Target), None, Num(Target), None>>,
     <<None, Num(Target), None, Num(Target)>>}

\* self.meta: the options a problem can set (absent keys read as their default).
Metas ==
    {[enable_waveform |-> w,
      enable_ppa |-> p,
      f4pga_board |-> b,
      f4pga_target_fmax |-> tf,
      openlane_pdk |-> k,
      openlane_ppa_score |-> t[1],
      openlane_critical_path_ns |-> t[2],
      openlane_core_area_um2 |-> t[3],
      openlane_power_total |-> t[4]] :
        w \in BOOLEAN, p \in BOOLEAN, b \in {"None", "basys3"}, tf \in Thresholds,
        k \in {"None", "sky130"}, t \in OpenlaneTargets}

\* The Result as super().populate_result leaves it.
InitialResults ==
    {[result_flag |-> "AC", points |-> MaxPoints, feedback |-> Feedback("", 0),
      extended_feedback |-> <<>>],
     [result_flag |-> "WA", points |-> 0, feedback |-> Feedback("prior", 0),
      extended_feedback |-> <<Seg("[PRIOR]", "prior", <<>>, <<>>, <<>>)>>],
     [result_flag |-> "TLE", points |-> 0, feedback |-> Feedback("", 0),
      extended_feedback |-> <<>>]}

\* What a provider request can end in.
TransientOutcomes ==
    {"connection_error", "timeout", "request_error", "http_status", "empty_body", "invalid_json"}

\* Bodies of a 200 response that decodes as JSON.
F4pgaBodies ==
    {Body("metrics", FALSE, <<v>>) : v \in MetricVals \cup {None}}
        \cup {Body("no_ppa", FALSE, <<>>), Body("empty", FALSE, <<>>)}

\* OpenLane metric payloads: score and delay below, at and above the target,
\* area and power at and above it, in every combination, and the payloads in
\* which one metric, or every metric, is "N/A".
OpenlaneMetrics ==
    {<<s, d, a, p>> : s \in {Num(Target - 1), Num(Target), Num(Target + 1)},
                      d \in {Num(Target - 1), Num(Target), Num(Target + 1)},
                      a \in {Num(Target), Num(Target + 1)},
                      p \in {Num(Target), Num(Target + 1)}}
        \cup {[i \in 1..4 |-> IF i = j THEN NA ELSE Num(Target)] : j \in 1..4}
        \cup {[i \in 1..4 |-> NA]}

OpenlaneBodies ==
    {Body("metrics", TRUE, m) : m \in OpenlaneMetrics}
        \cup {Body("metrics", FALSE, [i \in 1..4 |-> Num(Target)]),
              Body("no_ppa", TRUE, <<>>), Body("empty", FALSE, <<>>)}

----------------------------------------------------------------------------
(* Init: the executor after __init__, populate_result about to run.        *)

\* The locals of _process_waveform: whether wave.vcd was looked for, whether
\* it exists (line 81) and its size (line 89).
NotLooked == [looked |-> FALSE, exists |-> FALSE, size |-> 0]
Found(exists, vcd_size) == [looked |-> TRUE, exists |-> exists, size |-> IF exists THEN vcd_size ELSE 0]

\* The variables of the other specifications stay at these values.
PipelineAt(at) ==
    /\ pc = at
    /\ dir_set = FALSE
    /\ submission_id = "None"
    /\ meta \in {m \in Metas : ~m.enable_ppa /\ ~m.enable_waveform /\ m.f4pga_board = "None"
                               /\ m.openlane_pdk = "None" /\ m.f4pga_target_fmax = None
                               /\ m.openlane_ppa_score = None /\ m.openlane_critical_path_ns = None
                               /\ m.openlane_core_area_um2 = None}
    /\ syscalls = ClassSyscalls
    /\ result \in {r \in InitialResults : r.result_flag = "AC"}
    /\ entry_result = result
    /\ feedback_parts = <<>>
    /\ failed_targets = <<>>
    /\ f4pga_result = NoResult
    /\ openlane_result = NoResult
    /\ posts = <<>>
    /\ log = <<>>
    /\ waves = {}
    /\ vcd = NotLooked
    /\ handles = {}
WorkersIdle == workers = <<>> /\ artifacts = <<>>
KeyIdle == units = <<>> /\ keys = <<>>
CompileIdle ==
    /\ problem_id = "None"
    /\ source_dict = <<>>
    /\ dir_files = {}
    /\ source_paths = <<>>
    /\ compile_args = <<>>
    /\ calls = 0
FsIdle == work_dir = "None" /\ default_fs = <<>> /\ write_fs = <<>>
SideIdle == WorkersIdle /\ KeyIdle /\ CompileIdle /\ FsIdle

CheckerIdle ==
    /\ proc_out = <<>>
    /\ res_feedback = <<>>
    /\ point_value = 0
    /\ checked = [done |-> FALSE, passed |-> FALSE, points |-> 0,
                  feedback |-> <<>>, extended_feedback |-> <<>>]

Init ==
    /\ pc = "populate_result"
    /\ dir_set \in BOOLEAN
    /\ submission_id \in {"None", "S1"}
    /\ meta \in Metas
    /\ syscalls = ClassSyscalls
    /\ result \in InitialResults
    /\ entry_result = result
    /\ feedback_parts = <<>>
    /\ failed_targets = <<>>
    /\ f4pga_result = NoResult
    /\ openlane_result = NoResult
    /\ posts = <<>>
    /\ log = <<>>
    /\ waves = {}
    /\ vcd = NotLooked
    /\ handles = {}
    /\ CheckerIdle
    /\ SideIdle

----------------------------------------------------------------------------
(* Executor.populate_result: the stages run only when self._dir is set.    *)

PopulateResult ==
    /\ pc = "populate_result"
    /\ pc' = IF dir_set THEN "waveform" ELSE "done"
    /\ UNCHANGED <<dir_set, submission_id, meta, syscalls, result, feedback_parts,
                   failed_targets, f4pga_result, openlane_result, posts, log, waves, entry_result, vcd, handles>>
    /\ UNCHANGED <<checkVars, sideVars>>

----------------------------------------------------------------------------
(* Executor._process_waveform.                                             *)

MinVcdSize == 100
VcdSizes == {MinVcdSize - 50, MinVcdSize - 1, MinVcdSize}

\* Mutant: the identifier is used as it is, without the 'unknown' fallback.
VcdDest_NoFallback(sid) == <<"/waves/", sid, ".vcd">>

\* f'/waves/{submission_id}.vcd' with submission_id = self.submission_id or 'unknown'
VcdDest(sid) == <<"/waves/", IF Truthy(sid) THEN sid ELSE "unknown", ".vcd">>

WaveInfo(vcd_dest) == Seg("[WAVEFORM]", "VCD", <<>>, <<>>, vcd_dest)

\* Mutant: the size test lets a trace one byte under the minimum through.
TooSmall_Lax(vcd_size) == vcd_size < MinVcdSize - 1

\* Line 92.
TooSmall(vcd_size) == vcd_size < MinVcdSize

\* exists: wave.vcd is in the working directory; vcd_size: its size;
\* mkdir_ok / copy_ok: whether wave_dest.mkdir and shutil.copy succeed.
ProcessWaveform ==
    /\ pc = "waveform"
    /\ \E exists \in BOOLEAN, vcd_size \in VcdSizes, mkdir_ok \in BOOLEAN, copy_ok \in BOOLEAN :
          IF ~meta.enable_waveform
          THEN /\ pc' = "ppa"
               /\ UNCHANGED <<result, waves, log, vcd>>
          ELSE /\ vcd' = Found(exists, vcd_size)
               /\ IF ~exists
                  THEN /\ pc' = "ppa"
                       /\ UNCHANGED <<result, waves, log>>
                  ELSE IF TooSmall(vcd_size)
                  THEN /\ pc' = "ppa"
                       /\ log' = Append(log, LogEntry("waveform", "vcd_too_small"))
                       /\ UNCHANGED <<result, waves>>
                  ELSE IF ~mkdir_ok
                  THEN \* mkdir is outside the try block: its exception leaves populate_result
                       /\ pc' = "raised"
                       /\ UNCHANGED <<result, waves, log>>
                  ELSE IF ~copy_ok
                  THEN /\ pc' = "ppa"
                       /\ log' = Append(log, LogEntry("waveform", "copy_failed"))
                       /\ UNCHANGED <<result, waves>>
                  ELSE /\ pc' = "ppa"
                       /\ UNCHANGED log
                       /\ waves' = waves \cup {VcdDest(submission_id)}
                       /\ result' = [result EXCEPT !.extended_feedback =
                                         Append(@, WaveInfo(VcdDest(submission_id)))]
    /\ UNCHANGED <<dir_set, submission_id, meta, syscalls, feedback_parts,
                   failed_targets, f4pga_result, openlane_result, posts, entry_result, handles>>
    /\ UNCHANGED <<checkVars, sideVars>>

----------------------------------------------------------------------------
(* Executor._process_ppa, lines 119-145: the enable gate and the locals.   *)

ProcessPpa ==
    /\ pc = "ppa"
    /\ pc' = IF meta.enable_ppa THEN "f4pga" ELSE "done"
    /\ feedback_parts' = <<>>
    /\ failed_targets' = <<>>
    /\ UNCHANGED <<dir_set, submission_id, meta, syscalls, result,
                   f4pga_result, openlane_result, posts, log, waves, entry_result, vcd, handles>>
    /\ UNCHANGED <<checkVars, sideVars>>

ExecutionFailed(tag) == Seg(tag, "Execution failed", <<>>, <<>>, <<>>)

(* _process_ppa, lines 149-154: what is done with _execute_f4pga's return. *)
AfterF4pga(r, parts, failed) ==
    IF ResultTruthy(r)
    THEN LET c == _check_f4pga_targets(r, meta.f4pga_target_fmax, parts)
         IN [parts |-> c.parts, failed |-> failed \o c.failed]
    ELSE [parts |-> Append(parts, ExecutionFailed("[F4PGA]")), failed |-> failed]

(* _process_ppa, lines 159-166: the same for _execute_openlane.            *)
AfterOpenlane(r, parts, failed) ==
    IF ResultTruthy(r)
    THEN LET c == _check_openlane_targets(r, meta.openlane_ppa_score,
                      meta.openlane_critical_path_ns, meta.openlane_core_area_um2,
                      meta.openlane_power_total, parts)
         IN [parts |-> c.parts, failed |-> failed \o c.failed]
    ELSE [parts |-> Append(parts, ExecutionFailed("[OpenLane]")), failed |-> failed]

\* result.result_flag = Result.IE with the short feedback naming the file.
InternalError(r, kind) ==
    [r EXCEPT !.result_flag = "IE", !.feedback = Feedback(kind, 0)]

\* How the part of _execute_* before the request can end: no .v file in the
\* working directory, constraint/config file absent, open() raising
\* FileNotFoundError, open() raising another error, or the request is sent.
PreOutcomes == {"no_verilog", "constraint_missing", "open_not_found", "open_error", "posted"}

\* Mutant: a session that sends the request again after the first attempt.
Post_Retry(history, endpoint) == history \o <<endpoint, endpoint>>

\* requests.post(url, ...) at lines 222 and 278: one request to the endpoint.
Post(history, endpoint) == Append(history, endpoint)

\* The upload files of a provider, in the order the dict literal opens them
\* (lines 213-216 and 272-275).
UploadFiles(provider) ==
    IF provider = "F4PGA" THEN <<"F4PGA verilog_file", "F4PGA xdc_file">>
    ELSE <<"OpenLane verilog_file", "OpenLane config_file">>

\* The files already open when the k-th open() raises.
OpenedBefore(provider, k) == {UploadFiles(provider)[i] : i \in 1..(k - 1)}

\* Files the function returns without closing: no close() is reached, so
\* each is either still open or was finalised by the runtime's collector.
Abandoned(hs) == {hs, {}}

\* Lines 225-226 and 281-282: close() on both files, reached only when
\* requests.post returns.
PostRaised == {"connection_error", "timeout", "request_error"}

\* The handles open before the request is sent, per pre-request outcome.
HandlesAfterPre(provider, pre, hs) ==
    IF pre = "posted" THEN {hs \cup OpenedBefore(provider, 3)}
    ELSE IF pre \in {"open_not_found", "open_error"}
    THEN {hs \cup a : a \in Abandoned(OpenedBefore(provider, 1)) \cup Abandoned(OpenedBefore(provider, 2))}
    ELSE {hs}

\* The handles open when the function returns after the request.
HandlesAfterRequest(provider, out, hs) ==
    IF out \in PostRaised
    THEN {(hs \ OpenedBefore(provider, 3)) \cup a : a \in Abandoned(OpenedBefore(provider, 3))}
    ELSE {hs \ OpenedBefore(provider, 3)}

----------------------------------------------------------------------------
(* F4PGA: _process_ppa lines 146-154 with Executor._execute_f4pga.         *)

SkipF4pga ==
    /\ pc = "f4pga"
    /\ ~Truthy(meta.f4pga_board)
    /\ pc' = "openlane"
    /\ UNCHANGED <<dir_set, submission_id, meta, syscalls, result, feedback_parts,
                   failed_targets, f4pga_result, openlane_result, posts, log, waves, entry_result, vcd, handles>>
    /\ UNCHANGED <<checkVars, sideVars>>

\* The Result after the part of _execute_f4pga that precedes the request
\* (lines 206-210 and the FileNotFoundError handler, lines 243-247).
F4pgaPreResult(r, pre) ==
    IF pre = "constraint_missing" THEN InternalError(r, "F4PGA XDC file not found")
    ELSE IF pre = "open_not_found" THEN InternalError(r, "F4PGA file not found")
    ELSE r

\* _execute_f4pga up to requests.post (lines 193-222); every outcome but
\* "posted" returns None and _process_ppa goes on to line 156.
ExecuteF4pga ==
    /\ pc = "f4pga"
    /\ Truthy(meta.f4pga_board)
    /\ \E pre \in PreOutcomes :
          /\ IF pre = "posted"
             THEN /\ posts' = Post(posts, "f4pga")
                  /\ pc' = "f4pga_request"
                  /\ UNCHANGED <<result, feedback_parts, failed_targets, f4pga_result, log>>
             ELSE /\ result' = F4pgaPreResult(result, pre)
                  /\ log' = Append(log, LogEntry("F4PGA", pre))
                  /\ f4pga_result' = NoResult
                  /\ feedback_parts' = AfterF4pga(NoResult, feedback_parts, failed_targets).parts
                  /\ failed_targets' = AfterF4pga(NoResult, feedback_parts, failed_targets).failed
                  /\ pc' = "openlane"
                  /\ UNCHANGED posts
          /\ handles' \in HandlesAfterPre("F4PGA", pre, handles)
    /\ UNCHANGED <<dir_set, submission_id, meta, syscalls, openlane_result, waves, entry_result, vcd>>
    /\ UNCHANGED <<checkVars, sideVars>>

\* What _execute_f4pga returns once the request has ended (lines 222-250):
\* None for an exception of requests.post, a status other than 200, an empty
\* body or a body response.json() cannot decode; the decoded body otherwise.
F4pgaReturn(out, body) ==
    IF out \in TransientOutcomes THEN NoResult ELSE body

\* Mutant: the generic handler records an internal error like the
\* FileNotFoundError handler does.
F4pgaResponseResult_IE(r, out) ==
    IF out \in {"connection_error", "timeout", "request_error", "invalid_json"}
    THEN InternalError(r, "F4PGA file not found") ELSE r

\* The Result after the request has ended: no branch of lines 222-241 and
\* 248-250 touches it.
F4pgaResponseResult(r, out) == r

F4pgaResponse ==
    /\ pc = "f4pga_request"
    /\ \E out \in TransientOutcomes \cup {"ok"} :
       \E body \in IF out = "ok" THEN F4pgaBodies ELSE {NoResult} :
          LET r == F4pgaReturn(out, body)
              a == AfterF4pga(r, feedback_parts, failed_targets)
          IN /\ f4pga_result' = r
             /\ feedback_parts' = a.parts
             /\ failed_targets' = a.failed
             /\ result' = F4pgaResponseResult(result, out)
             /\ log' = IF out \in TransientOutcomes THEN Append(log, LogEntry("F4PGA", out))
                        ELSE IF r.shape = "no_ppa" THEN Append(log, LogEntry("F4PGA", "error_processing"))
                        ELSE log
             /\ handles' \in HandlesAfterRequest("F4PGA", out, handles)
    /\ pc' = "openlane"
    /\ UNCHANGED <<dir_set, submission_id, meta, syscalls, openlane_result, posts, waves, entry_result, vcd>>
    /\ UNCHANGED <<checkVars, sideVars>>

----------------------------------------------------------------------------
(* OpenLane: _process_ppa lines 156-166 with Executor._execute_openlane.   *)

SkipOpenlane ==
    /\ pc = "openlane"
    /\ ~Truthy(meta.openlane_pdk)
    /\ pc' = "evaluate"
    /\ UNCHANGED <<dir_set, submission_id, meta, syscalls, result, feedback_parts,
                   failed_targets, f4pga_result, openlane_result, posts, log, waves, entry_result, vcd, handles>>
    /\ UNCHANGED <<checkVars, sideVars>>

\* Lines 265-269; _execute_openlane has no FileNotFoundError handler, so an
\* open() that fails is caught by the generic handler (lines 305-307).
OpenlanePreResult(r, pre) ==
    IF pre = "constraint_missing" THEN InternalError(r, "OpenLane config file not found")
    ELSE r

ExecuteOpenlane ==
    /\ pc = "openlane"
    /\ Truthy(meta.openlane_pdk)
    /\ \E pre \in PreOutcomes :
          /\ IF pre = "posted"
             THEN /\ posts' = Post(posts, "openlane")
                  /\ pc' = "openlane_request"
                  /\ UNCHANGED <<result, feedback_parts, failed_targets, openlane_result, log>>
             ELSE /\ result' = OpenlanePreResult(result, pre)
                  /\ log' = Append(log, LogEntry("OpenLane", pre))
                  /\ openlane_result' = NoResult
                  /\ feedback_parts' = AfterOpenlane(NoResult, feedback_parts, failed_targets).parts
                  /\ failed_targets' = AfterOpenlane(NoResult, feedback_parts, failed_targets).failed
                  /\ pc' = "evaluate"
                  /\ UNCHANGED posts
          /\ handles' \in HandlesAfterPre("OpenLane", pre, handles)
    /\ UNCHANGED <<dir_set, submission_id, meta, syscalls, f4pga_result, waves, entry_result, vcd>>
    /\ UNCHANGED <<checkVars, sideVars>>

\* Lines 278-307: as for F4PGA, and None too unless the body's "success" is True.
OpenlaneReturn(out, body) ==
    IF out \in TransientOutcomes THEN NoResult
    ELSE IF body.success # TRUE THEN NoResult
    ELSE body

OpenlaneResponseResult(r, out) == r

OpenlaneResponse ==
    /\ pc = "openlane_request"
    /\ \E out \in TransientOutcomes \cup {"ok"} :
       \E body \in IF out = "ok" THEN OpenlaneBodies ELSE {NoResult} :
          LET r == OpenlaneReturn(out, body)
              a == AfterOpenlane(r, feedback_parts, failed_targets)
          IN /\ openlane_result' = r
             /\ feedback_parts' = a.parts
             /\ failed_targets' = a.failed
             /\ result' = OpenlaneResponseResult(result, out)
             /\ log' = IF out \in TransientOutcomes THEN Append(log, LogEntry("OpenLane", out))
                        ELSE IF r = NoResult THEN Append(log, LogEntry("OpenLane", "synthesis_failed"))
                        ELSE IF r.shape = "no_ppa" THEN Append(log, LogEntry("OpenLane", "error_processing"))
                        ELSE log
             /\ handles' \in HandlesAfterRequest("OpenLane", out, handles)
    /\ pc' = "evaluate"
    /\ UNCHANGED <<dir_set, submission_id, meta, syscalls, f4pga_result, posts, waves, entry_result, vcd>>
    /\ UNCHANGED <<checkVars, sideVars>>

----------------------------------------------------------------------------
(* _process_ppa, lines 168-191: the unified evaluation.                    *)

NoProviderSelected(m) == ~Truthy(m.f4pga_board) /\ ~Truthy(m.openlane_pdk)

\* feedback_parts as line 189 finds it.
SummaryParts(m, parts, failed) ==
    LET p1 == IF NoProviderSelected(m)
              THEN Append(parts, Seg("[PPA]", "No board/PDK selected", <<>>, <<>>, <<>>))
              ELSE parts
    IN IF failed # <<>>
       THEN Append(p1, Seg("[PPA]", "FAILED", <<>>, failed, <<>>))
       ELSE IF ~NoProviderSelected(m)
       THEN Append(p1, Seg("[PPA]", "All targets passed", <<>>, <<>>, <<>>))
       ELSE p1

\* Mutant: the test is on the list object (failed_targets is not None),
\* which is true of an empty list as well.
PpaVerdict_Always(r, failed) ==
    [r EXCEPT !.result_flag = "PLE", !.points = 0,
              !.feedback = Feedback("PPA targets not met", Len(failed))]

\* Mutant: the override forgets result.points = 0.
PpaVerdict_KeepPoints(r, failed) ==
    IF failed # <<>>
    THEN [r EXCEPT !.result_flag = "PLE",
                   !.feedback = Feedback("PPA targets not met", Len(failed))]
    ELSE r

\* Mutant: when every target is met the verdict is reset to accepted.
PpaVerdict_Promote(r, failed) ==
    IF failed # <<>>
    THEN [r EXCEPT !.result_flag = "PLE", !.points = 0,
                   !.feedback = Feedback("PPA targets not met", Len(failed))]
    ELSE [r EXCEPT !.result_flag = "AC"]

\* Lines 174-179: the verdict override.
PpaVerdict(r, failed) ==
    IF failed # <<>>
    THEN [r EXCEPT !.result_flag = "PLE", !.points = 0,
                   !.feedback = Feedback("PPA targets not met", Len(failed))]
    ELSE r

\* Mutant: the segments replace the extended feedback instead of being
\* appended to it.
AppendParts_Overwrite(r, parts) ==
    IF parts # <<>> THEN [r EXCEPT !.extended_feedback = parts] ELSE r

\* Lines 189-191: current extended feedback followed by the joined parts.
AppendParts(r, parts) ==
    IF parts # <<>>
    THEN [r EXCEPT !.extended_feedback = @ \o parts]
    ELSE r

EvaluatePpa ==
    /\ pc = "evaluate"
    /\ feedback_parts' = SummaryParts(meta, feedback_parts, failed_targets)
    /\ result' = AppendParts(PpaVerdict(result, failed_targets), feedback_parts')
    /\ pc' = "done"
    /\ UNCHANGED <<dir_set, submission_id, meta, syscalls, failed_targets,
                   f4pga_result, openlane_result, posts, log, waves, entry_result, vcd, handles>>
    /\ UNCHANGED <<checkVars, sideVars>>

Next ==
    \/ PopulateResult
    \/ ProcessWaveform
    \/ ProcessPpa
    \/ SkipF4pga
    \/ ExecuteF4pga
    \/ F4pgaResponse
    \/ SkipOpenlane
    \/ ExecuteOpenlane
    \/ OpenlaneResponse
    \/ EvaluatePpa

Spec == Init /\ [][Next]_vars

----------------------------------------------------------------------------
(* dmoj/checkers/verilogchecker.py.  Text is a sequence of characters; a   *)
(* fixed phrase of a feedback message is one element of its sequence.      *)

\* A byte that is not valid UTF-8: decode(errors='ignore') drops it.
InvalidByte == "<FF>"

\* proc_out.decode(errors='ignore')
Decode(bytes) == SelectSeq(bytes, LAMBDA c : c # InvalidByte)

\* Characters str.strip() removes and \s matches.
WhiteSpace == {" ", "\t", "\n", "\r", "\f"}
\* Characters str.splitlines() breaks lines at ("\r\n" is a single break).
LineBreaks == {"\n", "\r", "\f"}
Digits == {"0", "1", "2", "3", "4", "5", "6", "7", "8", "9"}

\* Case folding of re.I on the letters of the alphabet.
ToUpper ==
    [c \in {"r", "e", "s", "u", "l", "t", "o", "k", "w", "a", "i", "m"} |->
        CASE c = "r" -> "R" [] c = "e" -> "E" [] c = "s" -> "S" [] c = "u" -> "U"
          [] c = "l" -> "L" [] c = "t" -> "T" [] c = "o" -> "O" [] c = "k" -> "K"
          [] c = "w" -> "W" [] c = "a" -> "A" [] c = "i" -> "I" [] c = "m" -> "M"]
Fold(c) == IF c \in DOMAIN ToUpper THEN ToUpper[c] ELSE c

\* s[i:] of Python, for a 1-based i.
Drop(s, i) == SubSeq(s, i, Len(s))
\* s[:n] of Python.
Take(s, n) == SubSeq(s, 1, IF n < Len(s) THEN n ELSE Len(s))

SetMin(S) == CHOOSE x \in S : \A y \in S : x <= y
SetMax(S) == CHOOSE x \in S : \A y \in S : x >= y

\* str.strip(): from the first to the last character that is not whitespace.
Strip(s) ==
    LET keep == {i \in 1..Len(s) : s[i] \notin WhiteSpace}
    IN IF keep = {} THEN <<>> ELSE SubSeq(s, SetMin(keep), SetMax(keep))

\* str.splitlines(): the lines without their line breaks; no final empty line.
\* SplitFrom(s, i) is the lines of s from position i on.
RECURSIVE SplitFrom(_, _)
SplitFrom(s, i) ==
    IF i > Len(s) THEN <<>>
    ELSE LET breaks == {j \in i..Len(s) : s[j] \in LineBreaks}
         IN IF breaks = {} THEN <<SubSeq(s, i, Len(s))>>
            ELSE LET j == SetMin(breaks)
                     crlf == s[j] = "\r" /\ j < Len(s) /\ s[j + 1] = "\n"
                 IN <<SubSeq(s, i, j - 1)>> \o SplitFrom(s, IF crlf THEN j + 2 ELSE j + 1)
SplitLines(s) == SplitFrom(s, 1)

\* [l.strip() for l in text.splitlines() if l.strip()]
RECURSIVE StripAll(_)
StripAll(ls) ==
    IF ls = <<>> THEN <<>>
    ELSE (IF Strip(Head(ls)) # <<>> THEN <<Strip(Head(ls))>> ELSE <<>>) \o StripAll(Tail(ls))
NonBlankLines(text) == StripAll(SplitLines(text))

----------------------------------------------------------------------------
(* The three regular expressions, matched as re.match does: anchored at    *)
(* the start, greedy, case-insensitive.                                    *)

L_RESULT == <<"R", "E", "S", "U", "L", "T", ":">>
L_OK == <<"O", "K">>
L_WA == <<"W", "A">>
L_TIMEOUT == <<"T", "I", "M", "E", "O", "U", "T">>

\* The literal lit occurs in s at position i, ignoring case.
MatchLit(s, i, lit) ==
    /\ i + Len(lit) - 1 <= Len(s)
    /\ \A k \in 1..Len(lit) : Fold(s[i + k - 1]) = lit[k]

\* The position after the longest run of \s starting at i.
SkipSpace(s, i) ==
    LET stop == {j \in i..Len(s) : s[j] \notin WhiteSpace}
    IN IF stop = {} THEN Len(s) + 1 ELSE SetMin(stop)

\* Mutant: (\d) instead of (\d+), a single digit is captured.
TakeDigits_One(s, i) ==
    IF i <= Len(s) /\ s[i] \in Digits THEN <<s[i]>> ELSE <<>>

\* The longest run of \d starting at i.
TakeDigits(s, i) ==
    LET stop == {j \in i..Len(s) : s[j] \notin Digits}
    IN SubSeq(s, i, IF stop = {} THEN Len(s) ELSE SetMin(stop) - 1)

\* $ : at the end of the string, or before a newline that ends it.
AtEnd(s, i) == i = Len(s) + 1 \/ (i = Len(s) /\ s[i] = "\n")

\* Mutant: the pattern without \s*, so that a blank after the colon no longer matches.
MatchOK_NoSpace(last) ==
    /\ MatchLit(last, 1, L_RESULT)
    /\ MatchLit(last, Len(L_RESULT) + 1, L_OK)
    /\ AtEnd(last, Len(L_RESULT) + Len(L_OK) + 1)

\* re.match(r'^RESULT:\s*OK$', last, re.I)
MatchOK(last) ==
    /\ MatchLit(last, 1, L_RESULT)
    /\ LET j == SkipSpace(last, Len(L_RESULT) + 1)
       IN MatchLit(last, j, L_OK) /\ AtEnd(last, j + Len(L_OK))

\* The position after r'^RESULT:\s*WA\s+', or 0 when that prefix does not match.
AfterWA(last) ==
    IF ~MatchLit(last, 1, L_RESULT) THEN 0
    ELSE LET j == SkipSpace(last, Len(L_RESULT) + 1)
         IN IF ~MatchLit(last, j, L_WA) THEN 0
            ELSE LET k == SkipSpace(last, j + Len(L_WA))
                 IN IF k > j + Len(L_WA) THEN k ELSE 0

\* group(1) of re.match(r'^RESULT:\s*WA\s+(\d+)', last, re.I); <<>> when no match.
MatchWA(last) ==
    IF AfterWA(last) = 0 THEN <<>> ELSE TakeDigits(last, AfterWA(last))

\* re.match(r'^RESULT:\s*WA\s+TIMEOUT', last, re.I)
MatchTimeout(last) ==
    AfterWA(last) # 0 /\ MatchLit(last, AfterWA(last), L_TIMEOUT)

----------------------------------------------------------------------------
(* int(m.group(1)) and the f-string that formats it.                       *)

DigitVal(c) ==
    CASE c = "0" -> 0 [] c = "1" -> 1 [] c = "2" -> 2 [] c = "3" -> 3 [] c = "4" -> 4
      [] c = "5" -> 5 [] c = "6" -> 6 [] c = "7" -> 7 [] c = "8" -> 8 [] c = "9" -> 9

DigitChar(d) ==
    CASE d = 0 -> "0" [] d = 1 -> "1" [] d = 2 -> "2" [] d = 3 -> "3" [] d = 4 -> "4"
      [] d = 5 -> "5" [] d = 6 -> "6" [] d = 7 -> "7" [] d = 8 -> "8" [] d = 9 -> "9"

\* int(digits): Python integers are unbounded, so is the value here.
RECURSIVE ParseInt(_)
ParseInt(ds) ==
    IF ds = <<>> THEN 0 ELSE 10 * ParseInt(SubSeq(ds, 1, Len(ds) - 1)) + DigitVal(ds[Len(ds)])

\* f'{n}' for n >= 0
RECURSIVE IntToStr(_)
IntToStr(n) ==
    IF n < 10 THEN <<DigitChar(n)>> ELSE IntToStr(n \div 10) \o <<DigitChar(n % 10)>>

\* repr() of a bytes value over the alphabet of the inputs: b'...' with a
\* newline written as the two characters \ and n.
RECURSIVE Escaped(_)
Escaped(bs) ==
    IF bs = <<>> THEN <<>>
    ELSE IF Len(bs) = 1 THEN (IF bs[1] = "\n" THEN <<"\\", "n">> ELSE bs)
    ELSE LET h == Len(bs) \div 2
         IN Escaped(SubSeq(bs, 1, h)) \o Escaped(SubSeq(bs, h + 1, Len(bs)))
Repr(bs) == <<"b", "'">> \o Escaped(bs) \o <<"'">>

----------------------------------------------------------------------------
(* check(proc_out, judge_out, **kw)                                        *)

StderrLimit == 200
ExtLimit == 120

CheckerResult(passed, points, feedback, extended_feedback) ==
    [done |-> TRUE, passed |-> passed, points |-> points,
     feedback |-> feedback, extended_feedback |-> extended_feedback]

\* Mutant: the slice is taken one byte short.
NoOutput_Short(fb) ==
    CheckerResult(FALSE, 0,
        <<"no output on stdout (limit=", "{limit}", ", flag=", "{flag}", ")">>,
        <<"stderr_first200=">> \o Repr(Take(fb, StderrLimit - 1)))

\* Lines 12-15: nothing but whitespace on stdout.
NoOutput(fb) ==
    CheckerResult(FALSE, 0,
        <<"no output on stdout (limit=", "{limit}", ", flag=", "{flag}", ")">>,
        <<"stderr_first200=">> \o Repr(Take(fb, StderrLimit)))

\* Lines 20-21
IsOK(last) == MatchOK(last)

\* Lines 23-26
Mismatches(last) ==
    CheckerResult(FALSE, 0, IntToStr(ParseInt(MatchWA(last))) \o <<" mismatch(es)">>, <<>>)

\* Line 31
FormatError(last) ==
    CheckerResult(FALSE, 0, <<"format error">>, Take(last, ExtLimit))

check(out, fb, pv) ==
    LET text == Decode(out)
    IN IF Strip(text) = <<>> THEN NoOutput(fb)
       ELSE LET lines == NonBlankLines(text)
                last == lines[Len(lines)]
            IN IF IsOK(last) THEN CheckerResult(TRUE, pv, <<>>, <<>>)
               ELSE IF MatchWA(last) # <<>> THEN Mismatches(last)
               ELSE IF MatchTimeout(last) THEN CheckerResult(FALSE, 0, <<"timeout">>, <<>>)
               ELSE FormatError(last)

----------------------------------------------------------------------------
(* Inputs of the checker: stdout is some earlier lines, a last line built  *)
(* as head, separator, word, separator, argument, tail, and a trailer.     *)

\* How far the long inputs exceed the limits of lines 14 and 31.
Over == 3

Heads == {<<>>, L_RESULT, <<"r", "e", "s", "u", "l", "t", ":">>, <<"R", "E", "S", "U", "L", "T">>}
Seps1 == {<<>>, <<" ">>, <<"\t", " ">>}
Words == {<<>>, L_OK, <<"o", "K">>, L_WA, <<"w", "a">>, <<"O", InvalidByte, "K">>}
Seps2 == {<<>>, <<" ">>}
Args == {<<>>, <<"0">>, <<"3">>, <<"0", "0", "7">>, <<"1", "2">>, L_TIMEOUT, <<"-", "1">>}
Tails == {<<>>, <<"x">>, <<" ", "x">>}

LastLines ==
    {h \o s1 \o w \o s2 \o a \o t :
        h \in Heads, s1 \in Seps1, w \in Words, s2 \in Seps2, a \in Args, t \in Tails}

\* Lines longer than the limit of line 31.
LongTail == [i \in 1..(ExtLimit + Over) |-> "x"]
LongLines ==
    {h \o LongTail : h \in {<<>>, L_RESULT \o <<" ">> \o L_OK, L_RESULT \o <<" ">> \o L_WA \o <<" ", "3">>,
                            L_RESULT \o <<" ">> \o L_WA \o <<" ">> \o L_TIMEOUT}}

Prefixes ==
    {<<>>,
     <<"g", "a", "r", "b", "a", "g", "e", "\n">>,
     L_RESULT \o <<" ">> \o L_OK \o <<"\n", " ", "\n">>}
Suffixes == {<<>>, <<"\n">>, <<" ", "\r", "\n", "\t", "\f", "\n">>}

Stdouts == {p \o l \o x : p \in Prefixes, l \in LastLines \cup LongLines, x \in Suffixes}

\* Stdout with nothing but whitespace (and bytes the decoder drops).
BlankStdouts == {<<>>, <<" ">>, <<"\n">>, <<InvalidByte>>, <<" ", "\r", "\n", "\t", "\f", "\n">>}

\* res.feedback: n bytes of letters with a newline now and then (None reads as b"").
StderrOfLen(n) == [i \in 1..n |-> IF i % 5 = 0 THEN "\n" ELSE IF i % 2 = 0 THEN "e" ELSE "r"]
Stderrs == {StderrOfLen(n) : n \in {0, 3, StderrLimit, StderrLimit + Over}}

\* The runs checked: <<stdout, res.feedback, point_value>>.
CheckerInputs ==
    (Stdouts \X {StderrOfLen(3)} \X {1, MaxPoints})
        \cup (BlankStdouts \X Stderrs \X {1, MaxPoints})

InitChecker ==
    /\ \E in \in CheckerInputs :
          /\ proc_out = in[1]
          /\ res_feedback = in[2]
          /\ point_value = in[3]
    /\ checked = [done |-> FALSE, passed |-> FALSE, points |-> 0,
                  feedback |-> <<>>, extended_feedback |-> <<>>]
    /\ PipelineAt("check")
    /\ SideIdle

\* The grader calls the checker on the captured output.
Check ==
    /\ pc = "check"
    /\ checked' = check(proc_out, res_feedback, point_value)
    /\ pc' = "checked"
    /\ UNCHANGED <<proc_out, res_feedback, point_value>>
    /\ UNCHANGED <<dir_set, submission_id, meta, syscalls, result, feedback_parts,
                   failed_targets, f4pga_result, openlane_result, posts, log, waves, entry_result, vcd, handles>>
    /\ UNCHANGED sideVars

NextChecker == Check

SpecChecker == InitChecker /\ [][NextChecker]_vars

----------------------------------------------------------------------------
(* Two judge workers, each with an Executor of its own, run                *)
(* _process_waveform concurrently; /waves is the only state they share.    *)

Workers == {1, 2}
SubmissionIds == {"None", "S1", "S2"}

\* An executor as __init__ leaves it (lines 36-40) when populate_result
\* reaches _process_waveform; ext is result.extended_feedback.
WorkerInits ==
    [pc : {"waveform"}, submission_id : SubmissionIds, enable_waveform : BOOLEAN,
     vcd : {NotLooked}, ext : {<<>>}]

\* Every path a worker can write in /waves.
AllDests == {VcdDest(sid) : sid \in SubmissionIds}

\* Two submissions never carry the same identifier; either may carry none.
InitWorkers ==
    /\ workers \in [Workers -> WorkerInits]
    /\ \A v, w \in Workers :
          (v # w /\ workers[v].submission_id = workers[w].submission_id)
              => workers[v].submission_id = "None"
    /\ artifacts = [p \in AllDests |-> 0]
    /\ PipelineAt("workers")
    /\ CheckerIdle
    /\ KeyIdle
    /\ CompileIdle
    /\ FsIdle

\* Lines 73-94: the gate of capture and the look at wave.vcd.
WorkerLook(w) ==
    /\ workers[w].pc = "waveform"
    /\ \E exists \in BOOLEAN, vcd_size \in VcdSizes :
          workers' = [workers EXCEPT ![w] =
              IF ~workers[w].enable_waveform
              THEN [@ EXCEPT !.pc = "ppa"]
              ELSE [@ EXCEPT !.vcd = Found(exists, vcd_size),
                             !.pc = IF exists /\ ~TooSmall(vcd_size) THEN "mkdir" ELSE "ppa"]]
    /\ UNCHANGED artifacts
    /\ UNCHANGED <<pipeVars, checkVars, keyVars, compileVars, fsVars>>

\* Line 102: wave_dest.mkdir(parents=True, exist_ok=True).
WorkerMkdir(w) ==
    /\ workers[w].pc = "mkdir"
    /\ \E mkdir_ok \in BOOLEAN :
          workers' = [workers EXCEPT ![w].pc = IF mkdir_ok THEN "copy" ELSE "raised"]
    /\ UNCHANGED artifacts
    /\ UNCHANGED <<pipeVars, checkVars, keyVars, compileVars, fsVars>>

\* Lines 105-117: shutil.copy(vcd_path, vcd_dest) and the segment.
WorkerCopy(w) ==
    /\ workers[w].pc = "copy"
    /\ \E copy_ok \in BOOLEAN :
          LET vcd_dest == VcdDest(workers[w].submission_id)
          IN IF copy_ok
             THEN /\ artifacts' = [artifacts EXCEPT ![vcd_dest] = w]
                  /\ workers' = [workers EXCEPT ![w].pc = "ppa",
                                                ![w].ext = Append(@, WaveInfo(vcd_dest))]
             ELSE /\ workers' = [workers EXCEPT ![w].pc = "ppa"]
                  /\ UNCHANGED artifacts
    /\ UNCHANGED <<pipeVars, checkVars, keyVars, compileVars, fsVars>>

NextWorkers == \E w \in Workers : WorkerLook(w) \/ WorkerMkdir(w) \/ WorkerCopy(w)

SpecWorkers == InitWorkers /\ [][NextWorkers]_vars

----------------------------------------------------------------------------
(* CLikeExecutor.get_binary_cache_key.  Text is a sequence of characters,  *)
(* bytes a sequence of byte values; a fixed token is one element.          *)

\* utf8bytes: an ASCII character is its own byte, "é" encodes to two bytes.
Utf8Char(c) == IF c = "é" THEN <<"<C3>", "<A9>">> ELSE <<c>>

RECURSIVE Utf8Bytes(_)
Utf8Bytes(text) == IF text = <<>> THEN <<>> ELSE Utf8Char(Head(text)) \o Utf8Bytes(Tail(text))

\* ''.join(parts) and b''.join(parts).
RECURSIVE Join(_)
Join(parts) == IF parts = <<>> THEN <<>> ELSE Head(parts) \o Join(Tail(parts))

\* get_command(), get_march_flag(), get_defines(), get_flags(), get_ldflags()
\* for the Verilog executor: command 'iverilog', flags ['-g2012'], std None.
get_command == <<"iverilog">>
get_march_flag == <<"-march=native">>
get_defines(u) == <<<<"-DONLINE_JUDGE">>>> \o u.defines
get_flags == <<<<"-g2012">>>>
get_ldflags == <<>>

\* Lines 83-86.
get_binary_cache_key(u) ==
    LET key_components ==
            <<u.problem, get_command, get_march_flag>> \o get_defines(u) \o get_flags \o get_ldflags
    IN Utf8Bytes(Join(key_components)) \o Join(u.sources)

\* Compile units: the problem id, the defines given to __init__, and the
\* values of source_dict in insertion order.
UnitProblems == {<<"p">>, <<"p", "a">>}
UnitDefines == {<<>>, <<<<"a">>, <<"b">>>>, <<<<"a", "b">>>>, <<<<"é">>>>}
UnitSources ==
    {<<<<"a", "b">>, <<"c">>>>, <<<<"a">>, <<"b", "c">>>>, <<<<"a", "b", "c">>>>,
     <<<<"a", "b", "d">>>>, <<<<"<C3>", "<A9>">>>>}
Units == [problem : UnitProblems, defines : UnitDefines, sources : UnitSources]

InitCacheKey ==
    /\ units \in [{1, 2} -> Units]
    /\ keys = <<>>
    /\ PipelineAt("cache_key")
    /\ CheckerIdle
    /\ WorkersIdle
    /\ CompileIdle
    /\ FsIdle

GetBinaryCacheKey ==
    /\ pc = "cache_key"
    /\ keys' = [i \in {1, 2} |-> get_binary_cache_key(units[i])]
    /\ pc' = "keyed"
    /\ UNCHANGED <<dir_set, submission_id, meta, syscalls, result, feedback_parts,
                   failed_targets, f4pga_result, openlane_result, posts, log, waves, entry_result, vcd, handles>>
    /\ UNCHANGED <<units, checkVars, workerVars, compileVars, fsVars>>

NextCacheKey == GetBinaryCacheKey

SpecCacheKey == InitCacheKey /\ [][NextCacheKey]_vars

----------------------------------------------------------------------------
(* CLikeExecutor.create_files and Executor.get_compile_args.  A file name  *)
(* is <<stem, extension>>, the extension with its dot ("" when the name    *)
(* has no dot).                                                            *)

\* How many times get_compile_args is called on one executor.
MaxCalls == 2

\* self.ext of the Verilog executor.
Ext == ".v"

\* Names an auxiliary source can have, and the files the problem's zip
\* archives can hold.
AuxNames == {<<"aux", ".sv">>, <<"helper", ".v">>, <<"noext", "">>}
ZipMembers == {<<"lib", ".sv">>, <<"top", ".sv">>, <<"tb", ".v">>}

\* The keys of a dict built from a set of names, in insertion order.
RECURSIVE KeysOf(_)
KeysOf(S) ==
    IF S = {} THEN <<>>
    ELSE LET first == CHOOSE x \in S : TRUE
         IN <<first>> \o KeysOf(S \ {first})

\* CLikeExecutor.__init__, lines 35-37: aux_sources, then the main source
\* under problem_id + ext.
InitCompile ==
    /\ problem_id \in {"p", "self_test"}
    /\ \E aux \in SUBSET AuxNames : source_dict = KeysOf(aux) \o <<<<problem_id, Ext>>>>
    /\ dir_files = {}
    /\ source_paths = <<>>
    /\ compile_args = <<>>
    /\ calls = 0
    /\ PipelineAt("create_files")
    /\ CheckerIdle
    /\ WorkersIdle
    /\ KeyIdle
    /\ FsIdle

\* Lines 45-46: a name without a dot gets '.' + self.ext appended.
WrittenName(name) == IF name[2] = "" THEN <<name[1], "." \o Ext>> ELSE name

\* Lines 43-49: the names written to the working directory, in order.
WrittenNames(dict) == [i \in 1..Len(dict) |-> WrittenName(dict[i])]

\* Lines 42-78; zip: the members of the archives found under /problems.
CreateFiles ==
    /\ pc = "create_files"
    /\ source_paths' = WrittenNames(source_dict)
    /\ \E zip \in SUBSET ZipMembers :
          dir_files' = {source_paths'[i] : i \in 1..Len(source_paths')}
                          \cup (IF problem_id = "self_test" THEN {} ELSE zip)
    /\ pc' = "compile"
    /\ UNCHANGED <<problem_id, source_dict, compile_args, calls>>
    /\ UNCHANGED <<dir_set, submission_id, meta, syscalls, result, feedback_parts,
                   failed_targets, f4pga_result, openlane_result, posts, log, waves, entry_result, vcd, handles>>
    /\ UNCHANGED <<checkVars, workerVars, keyVars, fsVars>>

\* os.listdir(self._dir) filtered by endswith('.sv'), in some fixed order.
SvFiles(files) == KeysOf({f \in files : f[2] = ".sv"})

\* Lines 421-425: the widening pass.
Widen(paths, files) ==
    IF \A i \in 1..Len(paths) : paths[i] # <<"self_test", ".v">>
    THEN paths \o SvFiles(files)
    ELSE paths

\* Lines 419-437.
GetCompileArgs ==
    /\ pc = "compile"
    /\ calls < MaxCalls
    /\ source_paths' = Widen(source_paths, dir_files)
    /\ compile_args' = source_paths'
    /\ calls' = calls + 1
    /\ UNCHANGED <<problem_id, source_dict, dir_files>>
    /\ UNCHANGED <<pc, dir_set, submission_id, meta, syscalls, result, feedback_parts,
                   failed_targets, f4pga_result, openlane_result, posts, log, waves, entry_result, vcd, handles>>
    /\ UNCHANGED <<checkVars, workerVars, keyVars, fsVars>>

NextCompile == CreateFiles \/ GetCompileArgs

SpecCompile == InitCompile /\ [][NextCompile]_vars

----------------------------------------------------------------------------
(* Executor.get_write_fs.  A policy entry is <<rule, path>>.               *)

\* The longest default policy considered.
MaxDefault == 3

RecursiveDir(path) == <<"RecursiveDir", path>>
ExactFile(path) == <<"ExactFile", path>>

\* Entries the collaborator's default write policy can hold.
DefaultEntries == {ExactFile("/dev/null"), RecursiveDir("/tmp"), RecursiveDir("/waves")}

RECURSIVE SeqsUpTo(_, _)
SeqsUpTo(S, n) ==
    IF n = 0 THEN {<<>>}
    ELSE SeqsUpTo(S, n - 1) \cup {Append(q, x) : q \in {r \in SeqsUpTo(S, n - 1) : Len(r) = n - 1}, x \in S}

InitWriteFs ==
    /\ work_dir \in {"None", "/tmp/work"}
    /\ default_fs \in SeqsUpTo(DefaultEntries, MaxDefault)
    /\ write_fs = <<>>
    /\ PipelineAt("get_write_fs")
    /\ CheckerIdle
    /\ WorkersIdle
    /\ KeyIdle
    /\ CompileIdle

\* Mutant: the entries are appended to the collaborator's list in place
\* (base += [...]), which the collaborator sees too.
get_write_fs_InPlace(base, dir) ==
    IF Truthy(dir)
    THEN [ret |-> base \o <<RecursiveDir(dir)>> \o <<RecursiveDir("/waves")>>,
          base |-> base \o <<RecursiveDir(dir)>> \o <<RecursiveDir("/waves")>>]
    ELSE [ret |-> base, base |-> base]

\* Lines 412-417: ret is the list returned, base the collaborator's list
\* object after the call (base + [...] builds a new list).
get_write_fs(base, dir) ==
    IF Truthy(dir)
    THEN [ret |-> base \o <<RecursiveDir(dir)>> \o <<RecursiveDir("/waves")>>,
          base |-> base]
    ELSE [ret |-> base, base |-> base]

GetWriteFs ==
    /\ pc = "get_write_fs"
    /\ write_fs' = get_write_fs(default_fs, work_dir).ret
    /\ default_fs' = get_write_fs(default_fs, work_dir).base
    /\ pc' = "policy"
    /\ UNCHANGED work_dir
    /\ UNCHANGED <<dir_set, submission_id, meta, syscalls, result, feedback_parts,
                   failed_targets, f4pga_result, openlane_result, posts, log, waves, entry_result, vcd, handles>>
    /\ UNCHANGED <<checkVars, workerVars, keyVars, compileVars>>

NextWriteFs == GetWriteFs

SpecWriteFs == InitWriteFs /\ [][NextWriteFs]_vars

----------------------------------------------------------------------------
(* The stdout protocol as the specification words it, independently of    *)
(* the checker's own line splitting and regular expressions.              *)

\* The run's stderr as the checker sees it: the feedback field of the Result.
RunStderr == res_feedback

\* The last non-blank line of a text, trimmed: lines end at a newline.
ProtocolLastLine(text) ==
    LET solid == {k \in 1..Len(text) : text[k] \notin WhiteSpace}
        j == SetMax(solid)
        nl == {k \in 1..j : text[k] = "\n"}
        st == IF nl = {} THEN 1 ELSE SetMax(nl) + 1
        i == SetMin({k \in st..j : text[k] \notin WhiteSpace})
    IN SubSeq(text, i, j)

HasOutput(text) == \E k \in 1..Len(text) : text[k] \notin WhiteSpace

\* line equals the literal, compared case-insensitively.
SameText(line, lit) ==
    Len(line) = Len(lit) /\ \A k \in 1..Len(lit) : Fold(line[k]) = lit[k]

T_OK == L_RESULT \o <<" ">> \o L_OK
T_WA == L_RESULT \o <<" ">> \o L_WA \o <<" ">>
T_TIMEOUT == T_WA \o L_TIMEOUT

AllDigits(ds) == ds # <<>> /\ \A k \in 1..Len(ds) : ds[k] \in Digits

\* `RESULT: WA <n>`: the literal followed by one or more digits and nothing else.
IsWaLine(line) ==
    /\ Len(line) > Len(T_WA)
    /\ SameText(SubSeq(line, 1, Len(T_WA)), T_WA)
    /\ AllDigits(Drop(line, Len(T_WA) + 1))

\* The decimal numeral of the integer a digit string denotes: no leading zeros.
Numeral(ds) ==
    LET nz == {k \in 1..Len(ds) : ds[k] # "0"}
    IN IF nz = {} THEN <<"0">> ELSE Drop(ds, SetMin(nz))

\* sub occurs in s as a contiguous run.
Contains(s, sub) ==
    \E i \in 1..(Len(s) - Len(sub) + 1) : SubSeq(s, i, i + Len(sub) - 1) = sub

\* C1: when the last non-blank line of stdout, trimmed and compared
\* case-insensitively, is exactly RESULT: OK, check() returns a passing
\* verdict whose score is the declared point value, whatever precedes the
\* line and whatever whitespace follows it.
Thm_C1 ==
    (checked.done /\ HasOutput(proc_out) /\ SameText(ProtocolLastLine(proc_out), T_OK))
        => (checked.passed /\ checked.points = point_value)

\* C1 witness: garbage line first, the OK line in mixed case, whitespace and
\* blank lines after it, and the verdict is a pass with the full point value.
Wit_C1 ==
    /\ checked.done
    /\ proc_out = <<"g", "a", "r", "b", "a", "g", "e", "\n">>
                    \o <<"r", "e", "s", "u", "l", "t", ":", " ", "o", "K">>
                    \o <<" ", "\r", "\n", "\t", "\f", "\n">>
    /\ point_value = MaxPoints
    /\ checked.passed
    /\ checked.points = MaxPoints

\* C2: when the last non-blank line of stdout is RESULT: WA <n>, n >= 0,
\* check() returns a failing verdict with score 0 whose feedback contains n.
Thm_C2 ==
    (checked.done /\ HasOutput(proc_out) /\ IsWaLine(ProtocolLastLine(proc_out)))
        => /\ ~checked.passed
           /\ checked.points = 0
           /\ Contains(checked.feedback,
                       Numeral(Drop(ProtocolLastLine(proc_out), Len(T_WA) + 1)))

\* C2 witness: "garbage\nRESULT: WA 3\n" gives fail, score 0, "3 mismatch(es)".
Wit_C2 ==
    /\ checked.done
    /\ proc_out = <<"g", "a", "r", "b", "a", "g", "e", "\n">> \o T_WA \o <<"3", "\n">>
    /\ ~checked.passed
    /\ checked.points = 0
    /\ checked.feedback = <<"3", " mismatch(es)">>

\* The first 200 bytes of a byte string.
First200(bs) == [i \in 1..(IF Len(bs) < 200 THEN Len(bs) ELSE 200) |-> bs[i]]

IsProtocolLine(line) ==
    \/ \E ws \in {<<>>, <<" ">>, <<"\t", " ">>} : SameText(line, L_RESULT \o ws \o L_OK)
    \/ \E ws1 \in {<<>>, <<" ">>, <<"\t", " ">>}, ws2 \in {<<" ">>} :
          LET lit == L_RESULT \o ws1 \o L_WA \o ws2
          IN /\ Len(line) > Len(lit)
             /\ SameText(SubSeq(line, 1, Len(lit)), lit)
             /\ \/ AllDigits(Drop(line, Len(lit) + 1))
                \/ SameText(Drop(line, Len(lit) + 1), L_TIMEOUT)

\* C4: a non-blank stdout whose last non-blank line is none of RESULT: OK,
\* RESULT: WA <integer>, RESULT: WA TIMEOUT gets fail, score 0, feedback
\* "format error" and the first 120 characters of the line as extended
\* feedback; no such line counts as a mismatch count or as a timeout.
Cex_C4 ==
    (checked.done /\ HasOutput(Decode(proc_out))
       /\ ~IsProtocolLine(ProtocolLastLine(Decode(proc_out))))
        => /\ ~checked.passed
           /\ checked.points = 0
           /\ checked.feedback = <<"format error">>
           /\ checked.extended_feedback =
                 SubSeq(ProtocolLastLine(Decode(proc_out)), 1,
                        IF Len(ProtocolLastLine(Decode(proc_out))) < 120
                        THEN Len(ProtocolLastLine(Decode(proc_out))) ELSE 120)

----------------------------------------------------------------------------
(* Synthesis verification, stated from the measured metrics and thresholds *)
(* rather than from the lists _process_ppa builds.                         *)

\* _process_ppa has run to its end for a PPA-enabled submission.
PpaFinished == pc = "done" /\ dir_set /\ meta.enable_ppa

Below(measured, threshold) ==
    threshold.k = "num" /\ measured.k = "num" /\ measured.v < threshold.v
Above(measured, threshold) ==
    threshold.k = "num" /\ measured.k = "num" /\ measured.v > threshold.v

\* The metrics that were measured and are on the wrong side of their threshold.
F4pgaViolations ==
    IF f4pga_result.shape = "metrics" /\ Below(f4pga_result.m[1], meta.f4pga_target_fmax)
    THEN {"Fmax"} ELSE {}
OpenlaneViolations ==
    IF openlane_result.shape # "metrics" THEN {}
    ELSE (IF Below(openlane_result.m[1], meta.openlane_ppa_score) THEN {"PPA score"} ELSE {})
         \cup (IF Above(openlane_result.m[2], meta.openlane_critical_path_ns)
               THEN {"critical path"} ELSE {})
         \cup (IF Above(openlane_result.m[3], meta.openlane_core_area_um2)
               THEN {"core area"} ELSE {})
         \cup (IF Above(openlane_result.m[4], meta.openlane_power_total) THEN {"power"} ELSE {})
Violations == F4pgaViolations \cup OpenlaneViolations

SegsOf(ext, tag, kind) == {i \in 1..Len(ext) : ext[i].tag = tag /\ ext[i].kind = kind}

\* C5: with PPA enabled and at least one metric over its threshold, the
\* verdict after _process_ppa is performance-limit-exceeded with score 0,
\* the short feedback gives the number of failed items, and the itemized
\* failures end the extended feedback, whatever the verdict was before.
Thm_C5 ==
    (PpaFinished /\ Violations # {})
        => /\ result.result_flag = "PLE"
           /\ result.points = 0
           /\ result.feedback = Feedback("PPA targets not met", Cardinality(Violations))
           /\ LET last == result.extended_feedback[Len(result.extended_feedback)]
              IN /\ last.tag = "[PPA]" /\ last.kind = "FAILED"
                 /\ {last.items[i].metric : i \in 1..Len(last.items)} = Violations

\* C5 witness: a pass with the full score, one OpenLane threshold of several
\* exceeded, ends as performance-limit-exceeded with score 0.
Wit_C5 ==
    /\ PpaFinished
    /\ entry_result.result_flag = "AC"
    /\ entry_result.points = MaxPoints
    /\ Violations = {"critical path"}
    /\ result.result_flag = "PLE"
    /\ result.points = 0

\* C6: the stages never turn a verdict that entered as failing into a pass
\* and never raise the score.
Thm_C6 ==
    /\ entry_result.result_flag # "AC" => result.result_flag # "AC"
    /\ result.points <= entry_result.points

\* C6 witness: a wrong answer enters, the waveform is saved, both providers
\* report metrics within their thresholds, and the verdict is still wrong answer.
Wit_C6 ==
    /\ PpaFinished
    /\ entry_result.result_flag = "WA"
    /\ SegsOf(result.extended_feedback, "[WAVEFORM]", "VCD") # {}
    /\ SegsOf(result.extended_feedback, "[PPA]", "All targets passed") # {}
    /\ f4pga_result.shape = "metrics"
    /\ openlane_result.shape = "metrics"
    /\ meta.f4pga_target_fmax # None
    /\ meta.openlane_ppa_score # None
    /\ result.result_flag = "WA"
    /\ result.points = 0

\* A provider's constraint/config file was found missing.
ConstraintMissing ==
    \E i \in 1..Len(log) : log[i].event = "constraint_missing"

\* C7: with PPA enabled and the constraint/config file of an enabled
\* provider missing, the verdict after synthesis verification is the
\* internal-error state, whatever the other provider returns.
Cex_C7 ==
    (PpaFinished /\ ConstraintMissing) => result.result_flag = "IE"


\* The ways a provider request can fail in transit or in its response.
RequestFailures ==
    {"connection_error", "timeout", "request_error", "http_status", "empty_body", "invalid_json"}

TagOf(provider) == IF provider = "F4PGA" THEN "[F4PGA]" ELSE "[OpenLane]"

\* The step in which a provider's request failure is handled: the verdict
\* state, the score and the short feedback stay as they were, the provider
\* is marked "Execution failed", and after F4PGA the OpenLane stage is next.
RequestFailureStep ==
    (Len(log') = Len(log) + 1 /\ log'[Len(log')].event \in RequestFailures)
        => LET e == log'[Len(log')]
               mark == feedback_parts'[Len(feedback_parts')]
           IN /\ result'.result_flag = result.result_flag
              /\ result'.points = result.points
              /\ result'.feedback = result.feedback
              /\ Len(feedback_parts') = Len(feedback_parts) + 1
              /\ mark.tag = TagOf(e.provider) /\ mark.kind = "Execution failed"
              /\ pc' = IF e.provider = "F4PGA" THEN "openlane" ELSE "evaluate"

\* At the end the failed provider is marked in extended feedback and the
\* other enabled provider has its own segment there.
RequestFailureEnd ==
    PpaFinished =>
        \A i \in 1..Len(log) :
            log[i].event \in RequestFailures =>
                /\ SegsOf(result.extended_feedback, TagOf(log[i].provider), "Execution failed") # {}
                /\ Truthy(meta.f4pga_board) =>
                      \E k \in 1..Len(result.extended_feedback) :
                          result.extended_feedback[k].tag = "[F4PGA]"
                /\ Truthy(meta.openlane_pdk) =>
                      \E k \in 1..Len(result.extended_feedback) :
                          result.extended_feedback[k].tag = "[OpenLane]"

\* C8: a request that ends in a connection failure, a timeout, a generic
\* request failure, a non-success status or an empty/invalid body marks the
\* provider as failed in extended feedback, leaves verdict state, score and
\* short feedback unchanged, and the other enabled provider is still evaluated.
Thm_C8 == [][RequestFailureStep]_vars /\ []RequestFailureEnd

\* C8 witness: the F4PGA request timed out, OpenLane was evaluated on its
\* metrics afterwards and every target was met: the verdict is the one that entered.
Wit_C8 ==
    /\ PpaFinished
    /\ log = <<LogEntry("F4PGA", "timeout")>>
    /\ openlane_result.shape = "metrics"
    /\ SegsOf(result.extended_feedback, "[F4PGA]", "Execution failed") # {}
    /\ SegsOf(result.extended_feedback, "[OpenLane]", "metrics") # {}
    /\ result.result_flag = entry_result.result_flag
    /\ result.points = entry_result.points
    /\ result.feedback = entry_result.feedback

\* The network syscalls of a sandbox policy.
NetworkSyscalls ==
    {"socket", "connect", "sendto", "recvfrom", "send", "recv",
     "setsockopt", "getsockopt", "shutdown"}

\* C9: the network syscalls are in a submission's sandbox policy if and
\* only if PPA verification is enabled in its metadata.
Cex_C9 ==
    /\ meta.enable_ppa => NetworkSyscalls \subseteq syscalls
    /\ ~meta.enable_ppa => NetworkSyscalls \cap syscalls = {}

MetricsOf(failed) == {failed[i].metric : i \in 1..Len(failed)}

\* C10: a metric gives a failed item if and only if its threshold is
\* configured and the measured value is strictly on the wrong side of it
\* (frequency and score: below; delay, area and power: above); equal passes
\* and a metric without a threshold never fails.
Thm_C10 ==
    /\ (dir_set /\ meta.enable_ppa /\ pc \in {"openlane", "openlane_request"})
          => /\ MetricsOf(failed_targets) = F4pgaViolations
             /\ Len(failed_targets) = Cardinality(F4pgaViolations)
    /\ (dir_set /\ meta.enable_ppa /\ pc \in {"evaluate", "done"})
          => /\ MetricsOf(failed_targets) = Violations
             /\ Len(failed_targets) = Cardinality(Violations)

\* C10 witness: Fmax equal to its target passes; of the OpenLane metrics the
\* score is below but has no threshold, the delay equals its threshold, the
\* area is above but has no threshold, and only the power, above its
\* threshold, is a failed item.
Wit_C10 ==
    /\ PpaFinished
    /\ meta.f4pga_target_fmax = Num(Target)
    /\ f4pga_result.shape = "metrics"
    /\ f4pga_result.m[1] = Num(Target)
    /\ meta.openlane_ppa_score = None
    /\ meta.openlane_critical_path_ns = Num(Target)
    /\ meta.openlane_core_area_um2 = None
    /\ meta.openlane_power_total = Num(Target)
    /\ openlane_result.shape = "metrics"
    /\ openlane_result.m = <<Num(Target - 1), Num(Target), Num(Target + 1), Num(Target + 1)>>
    /\ MetricsOf(failed_targets) = {"power"}

----------------------------------------------------------------------------
(* Waveform postprocessing.                                                *)

\* _process_waveform has ended, by returning or by raising.
WaveformEnded == dir_set /\ pc \in {"ppa", "raised"}

\* C11: on every path through _process_waveform the stage completes
\* without raising and leaves verdict state, score and short feedback as
\* they were.
Cex_C11 ==
    /\ pc # "raised"
    /\ WaveformEnded =>
          /\ result.result_flag = entry_result.result_flag
          /\ result.points = entry_result.points
          /\ result.feedback = entry_result.feedback

WaveformSegs(ext) == {k \in 1..Len(ext) : ext[k].tag = "[WAVEFORM]"}

\* Capture is enabled, the trace exists and has at least 100 bytes.
TraceValid == meta.enable_waveform /\ vcd.looked /\ vcd.exists /\ vcd.size >= 100

\* C12: a durable copy is made and a [WAVEFORM] segment is appended only
\* when capture is enabled, the trace exists and has at least 100 bytes;
\* otherwise nothing is copied and extended feedback is unchanged.
Thm_C12 ==
    WaveformEnded =>
        /\ (waves # {} \/ WaveformSegs(result.extended_feedback) # {}) => TraceValid
        /\ ~TraceValid =>
              /\ waves = {}
              /\ result.extended_feedback = entry_result.extended_feedback

\* C12 witness: capture enabled, a trace of 50 bytes, nothing copied.
Wit_C12 ==
    /\ WaveformEnded
    /\ meta.enable_waveform
    /\ vcd.exists
    /\ vcd.size = 50
    /\ waves = {}
    /\ result.extended_feedback = entry_result.extended_feedback

\* The artifact directory joined with S plus the trace extension, the
\* sentinel standing for an absent identifier.
ArtifactPath(sid) == <<"/waves/", IF sid = "None" THEN "unknown" ELSE sid, ".vcd">>

\* C13: when a copy is made, its destination is the artifact directory
\* joined with the submission identifier (or the sentinel) plus ".vcd", and
\* the one [WAVEFORM] segment appended references exactly that path.
Thm_C13 ==
    (WaveformEnded /\ (waves # {} \/ WaveformSegs(result.extended_feedback) # {})) =>
        /\ waves = {ArtifactPath(submission_id)}
        /\ Len(result.extended_feedback) = Len(entry_result.extended_feedback) + 1
        /\ WaveformSegs(result.extended_feedback) = {Len(result.extended_feedback)}
        /\ result.extended_feedback[Len(result.extended_feedback)].path
              = ArtifactPath(submission_id)

\* C13 witness: no identifier was given and the copy went to the sentinel name.
Wit_C13 ==
    /\ WaveformEnded
    /\ submission_id = "None"
    /\ waves = {<<"/waves/", "unknown", ".vcd">>}
    /\ WaveformSegs(result.extended_feedback) # {}

----------------------------------------------------------------------------
(* Upload file handles.                                                    *)

F4pgaUploads == {"F4PGA verilog_file", "F4PGA xdc_file"}
OpenlaneUploads == {"OpenLane verilog_file", "OpenLane config_file"}

\* C14: on every exit path of _execute_f4pga and _execute_openlane every
\* file handle the function opened for upload is closed by the time it
\* returns: outside a provider's request no upload file of it is open.
Cex_C14 ==
    /\ pc # "f4pga_request" => handles \cap F4pgaUploads = {}
    /\ pc # "openlane_request" => handles \cap OpenlaneUploads = {}

----------------------------------------------------------------------------
(* Concurrent artifact writers.                                            *)

\* The worker's copy succeeded: its [WAVEFORM] segment names the artifact.
Saved(w) == workers[w].ext # <<>>

\* C15: for two distinct submissions processed concurrently, each with
\* capture enabled and a valid trace, the destination paths differ, and in
\* no interleaving is a worker's artifact overwritten by the other's copy.
Cex_C15 ==
    \A v, w \in DOMAIN workers :
        (v # w /\ Saved(v) /\ Saved(w))
            => /\ ArtifactPath(workers[v].submission_id) # ArtifactPath(workers[w].submission_id)
               /\ artifacts[ArtifactPath(workers[v].submission_id)] = v

----------------------------------------------------------------------------
(* Binary cache key.                                                       *)

\* C16: get_binary_cache_key returns the same key for identical inputs and
\* different keys for two compile units that differ in the problem id, a
\* define or a source byte, however the bytes are split across files.
Cex_C16 ==
    pc = "keyed" => (keys[1] = keys[2] <=> units[1] = units[2])

----------------------------------------------------------------------------
(* The course of synthesis verification.                                   *)

F4pgaFatal ==
    \E i \in 1..Len(log) : log[i].provider = "F4PGA" /\ log[i].event = "constraint_missing"

PpaSummaries(ext) ==
    {k \in 1..Len(ext) : ext[k].tag = "[PPA]" /\ ext[k].kind \in {"FAILED", "All targets passed"}}

\* C17: once an enabled provider's constraint/config file is found missing,
\* synthesis verification ends there: no request goes to a later provider
\* and no threshold evaluation or pass/fail summary follows.
Cex_C17 ==
    /\ F4pgaFatal =>
          /\ \A k \in 1..Len(posts) : posts[k] # "openlane"
          /\ openlane_result = NoResult
    /\ ConstraintMissing => PpaSummaries(result.extended_feedback) = {}

\* C18: with PPA enabled and no failed metric, "[PPA] All targets passed"
\* is appended only if at least one provider returned a metrics result
\* that was evaluated; a run whose every enabled provider ended as
\* "Execution failed" never reports that all targets passed.
Cex_C18 ==
    (PpaFinished /\ SegsOf(result.extended_feedback, "[PPA]", "All targets passed") # {})
        => \/ SegsOf(result.extended_feedback, "[F4PGA]", "Fmax") # {}
           \/ SegsOf(result.extended_feedback, "[OpenLane]", "metrics") # {}

IsPrefix(s, t) == Len(s) <= Len(t) /\ \A i \in 1..Len(s) : s[i] = t[i]

\* The place of a segment in the order F4PGA, OpenLane, summary.
Rank(tag) ==
    IF tag = "[F4PGA]" THEN 1 ELSE IF tag = "[OpenLane]" THEN 2 ELSE IF tag = "[PPA]" THEN 3 ELSE 0

InOrder(ext) ==
    \A i, j \in 1..Len(ext) : i < j => Rank(ext[i].tag) <= Rank(ext[j].tag)

\* C19: after each post-execution step the extended feedback from before
\* the step is a prefix of the one after it, and F4PGA segments precede
\* OpenLane segments, which precede the [PPA] summary.
Thm_C19 ==
    /\ [][IsPrefix(result.extended_feedback, result'.extended_feedback)]_vars
    /\ [](IsPrefix(entry_result.extended_feedback, result.extended_feedback)
            /\ InOrder(result.extended_feedback))

\* C19 witness: a Result that came in with a segment, to which the
\* waveform, F4PGA, OpenLane and summary segments were appended in this order.
Wit_C19 ==
    /\ PpaFinished
    /\ Len(entry_result.extended_feedback) = 1
    /\ Len(result.extended_feedback) = 5
    /\ result.extended_feedback[1] = entry_result.extended_feedback[1]
    /\ result.extended_feedback[2].tag = "[WAVEFORM]"
    /\ result.extended_feedback[3].tag = "[F4PGA]"
    /\ result.extended_feedback[4].tag = "[OpenLane]"
    /\ result.extended_feedback[5].tag = "[PPA]"

----------------------------------------------------------------------------
(* The compile command.                                                    *)

NoDuplicates(seq) == \A i, j \in 1..Len(seq) : seq[i] = seq[j] => i = j

\* The inputs as create_files listed them.
ListedInputs == [i \in 1..Len(source_dict) |->
                    IF source_dict[i][2] = "" THEN <<source_dict[i][1], "..v">> ELSE source_dict[i]]

\* C20: after get_compile_args every source path appears at most once in
\* the compile command, whatever the number of calls, and nothing is
\* appended when the self-test source is among the inputs.
Cex_C20 ==
    calls >= 1 =>
        /\ NoDuplicates(compile_args)
        /\ (\E i \in 1..Len(ListedInputs) : ListedInputs[i] = <<"self_test", ".v">>)
              => compile_args = ListedInputs

----------------------------------------------------------------------------
(* The provider requests of one submission.                                *)

Requests(endpoint) == {k \in 1..Len(posts) : posts[k] = endpoint}

\* A provider's answer has been dealt with once _process_ppa holds a
\* segment of that provider (its metrics, an error, or "Execution failed").
Evaluated(tag) == \E k \in 1..Len(feedback_parts) : feedback_parts[k].tag = tag

\* A request is in flight from the post until its outcome has been dealt with.
InFlight(endpoint, tag) == Requests(endpoint) # {} /\ ~Evaluated(tag)

\* C21: within one submission each provider endpoint receives at most one
\* request whatever its outcome, the OpenLane request is issued only after
\* the F4PGA request and its evaluation have finished, and the two requests
\* are never in flight at the same time.
Thm_C21 ==
    /\ Cardinality(Requests("f4pga")) <= 1
    /\ Cardinality(Requests("openlane")) <= 1
    /\ Len(posts) = Cardinality(Requests("f4pga")) + Cardinality(Requests("openlane"))
    /\ Requests("openlane") # {} =>
          /\ ~InFlight("f4pga", "[F4PGA]")
          /\ \A i \in Requests("f4pga"), j \in Requests("openlane") : i < j
    /\ ~(InFlight("f4pga", "[F4PGA]") /\ InFlight("openlane", "[OpenLane]"))

\* C21 witness: the F4PGA request timed out and was not sent again; the
\* OpenLane request followed it and failed too.
Wit_C21 ==
    /\ PpaFinished
    /\ posts = <<"f4pga", "openlane">>
    /\ log = <<LogEntry("F4PGA", "timeout"), LogEntry("OpenLane", "connection_error")>>

----------------------------------------------------------------------------
(* The write policy.                                                       *)

\* C22: when a working directory exists, get_write_fs returns every entry
\* of the default write policy, unchanged and in order, followed by
\* recursive write access to the working directory and to /waves; no
\* entry of the default policy is removed and the default list is not
\* modified.
Thm_C22 ==
    /\ [][default_fs' = default_fs]_vars
    /\ [](pc = "policy" =>
            /\ IsPrefix(default_fs, write_fs)
            /\ work_dir # "None" =>
                  /\ Len(write_fs) = Len(default_fs) + 2
                  /\ write_fs[Len(default_fs) + 1] = <<"RecursiveDir", work_dir>>
                  /\ write_fs[Len(default_fs) + 2] = <<"RecursiveDir", "/waves">>)

\* C22 witness: a default policy of three entries and a working directory;
\* five entries are returned and the default still has three.
Wit_C22 ==
    /\ pc = "policy"
    /\ work_dir = "/tmp/work"
    /\ Len(default_fs) = 3
    /\ Len(write_fs) = 5

----------------------------------------------------------------------------
(* The performance-limit verdict.                                          *)

\* No provider returned metrics that were evaluated.
NoMetrics == f4pga_result.shape # "metrics" /\ openlane_result.shape # "metrics"

NoProvider == meta.f4pga_board \in {"None", ""} /\ meta.openlane_pdk \in {"None", ""}

\* C23: the performance-limit-exceeded state is set and the score forced
\* to 0 only if a metric with a configured threshold was measured and
\* violated it; with PPA disabled, no provider selected, or no enabled
\* provider returning metrics, the state is never set and the score never
\* changes.
Thm_C23 ==
    /\ (result.result_flag = "PLE" \/ result.points # entry_result.points)
          => (pc = "done" /\ dir_set /\ meta.enable_ppa /\ Violations # {})
    /\ (~meta.enable_ppa \/ NoProvider \/ NoMetrics)
          => (result.result_flag # "PLE" /\ result.points = entry_result.points)

\* C23 witness: both providers enabled with thresholds, both requests
\* failed, and a full-score pass left the stage as it entered it.
Wit_C23 ==
    /\ PpaFinished
    /\ posts = <<"f4pga", "openlane">>
    /\ NoMetrics
    /\ meta.f4pga_target_fmax # None
    /\ meta.openlane_power_total # None
    /\ entry_result.result_flag = "AC"
    /\ result.result_flag = "AC"
    /\ result.points = MaxPoints

====
